---- MODULE Spec2Model ----
(***************************************************************************)
(* aaftimelineparser.py: the clip registry (CutClipList), the handle       *)
(* applicator (apply_handle), the command builder (generate_bmx) and the   *)
(* parallel executor (execute_bmx / run_command), driven by main().        *)
(*                                                                         *)
(* Units.  CutClip.start and CutClip.duration are Python floats holding    *)
(* seconds.  The model counts them in ticks of 1/TicksPerSecond seconds,   *)
(* and counts the intermediate float frame values of apply_handle          *)
(* (start_frames, duration_frames, reduction) in ticks of 1/TicksPerSecond *)
(* frames, so that clip.start * orig_framerate is an integer product.      *)
(* Every value the model produces is a small multiple of 1/2^k or a small  *)
(* rational; for the dyadic ones IEEE double arithmetic is exact.          *)
(*                                                                         *)
(* Optional values (Python None, "no exit yet") are sequences of length    *)
(* zero or one: << >> is None, <<v>> is the value v.                       *)
(***************************************************************************)
EXTENDS Integers, Sequences, FiniteSets, TLC

\* ---- bounds of the model -------------------------------------------------
MaxItems == 3          \* items of the timeline that main() walks over
MaxStart == 1          \* largest source_range start, in ticks
MaxDur == 1            \* largest source_range duration, in ticks
MaxHandle == 1         \* largest --handle value, in frames
MaxRate == 2           \* largest source frame rate, in frames per second
TicksPerSecond == 2    \* resolution of the float seconds
MaxWorkers == 2        \* worker threads of the ThreadPoolExecutor

\* ---- input domains -------------------------------------------------------
\* A file or clip name is the sequence of its dot-separated parts:
\* <<"A", "mxf">> is "A.mxf".  Clip names of a timeline:
TrackNames == { <<"A">>, <<"A", "mxf">>, <<"B">> }
\* The extensions _resolve_media tries, in its order.
Exts == <<"mxf", "mp4">>
\* args.source: << >> (None) or the folder.
Sources == { << >>, <<"src">> }
\* A clip name returned unchanged: a str, whose Path(...).name is itself.
Bare(trackname) == [dir |-> "", name |-> trackname]
\* The files the source folder can hold.
FileNames == { <<"A", "mxf">>, <<"B", "mp4">> }
\* Every media path _resolve_media can return: a directory part and a name.
Paths == { Bare(t) : t \in TrackNames }
           \cup { [dir |-> "src", name |-> f] : f \in FileNames }

Starts == 0..MaxStart
Durations == 0..MaxDur
Rates == 1..MaxRate
Handles == {<< >>} \cup { <<h>> : h \in 0..MaxHandle }
ExitCodes == {0, 1}
\* What subprocess.run does for one command: the process exits with a code,
\* or starting/running it raises.
ProcResults == { [kind |-> "exit", code |-> c] : c \in ExitCodes }
                 \cup { [kind |-> "raise", code |-> 0] }

VARIABLES
    pc,           \* position of the main thread
    handle,       \* args.handle: << >> (None) or <<n>>
    nItems,       \* timeline items main() has walked over
    bmx_clips,    \* the CutClipList of main()
    source_rate,  \* what get_source_rate returned per path (<< >>: not returned)
    bmx_cmds,     \* the commands generate_bmx returned
    futures,      \* per command: state of its future and its result
    results,      \* execute_bmx.results
    failed,       \* execute_bmx.failed, the failure report
    error,        \* the exception that ended the run, "none" otherwise
    exitStatus,   \* << >> while running, <<status>> once the process exited
    hull,         \* history: per path, min start and max end ever appended
    firstSeen,    \* history: paths in the order of their first append
    source,       \* args.source: << >> (None) or <<folder>>
    source_files, \* names of the files that exist in the source folder
    clip_names    \* names of the clips of the timeline

\* The surroundings of the run: no step of the program changes them.
env == << source, source_files, clip_names >>

vars == << pc, handle, nItems, bmx_clips, source_rate, bmx_cmds, futures,
           results, failed, error, exitStatus, hull, firstSeen, env >>

Min(a, b) == IF a < b THEN a ELSE b
Max(a, b) == IF a > b THEN a ELSE b

\* ---- CutClip / CutClipList ----------------------------------------------
CutClip(p, s, d) ==
    [path |-> p, start |-> s, duration |-> d,
     bmx_start_frames |-> 0, bmx_duration_frames |-> 0]

\* FirstWithPath with the path comparison lost: no entry is ever found.
FirstWithPath_never(self, p) == 0

\* FirstWithPath without the path comparison: the first entry always matches.
FirstWithPath_any(self, p) == IF Len(self) > 0 THEN 1 ELSE 0

\* Index of the first entry of self with the given path, 0 when there is none.
FirstWithPath(self, p) ==
    IF \E i \in 1..Len(self) : self[i].path = p
    THEN CHOOSE i \in 1..Len(self) :
            /\ self[i].path = p
            /\ \A j \in 1..(i - 1) : self[j].path # p
    ELSE 0

\* The merge branch with the duration always recomputed, against the old start.
MergeInto_unguarded(existing, item) ==
    LET new_end == item.start + item.duration
        start1 == IF item.start < existing.start THEN item.start ELSE existing.start
    IN [existing EXCEPT !.start = start1, !.duration = new_end - existing.start]

\* The merge branch of CutClipList.append for the entry existing.
MergeInto(existing, item) ==
    LET existing_end == existing.start + existing.duration
        new_end == item.start + item.duration
        start1 == IF item.start < existing.start THEN item.start ELSE existing.start
        duration1 == IF new_end > existing_end
                     THEN new_end - start1
                     ELSE existing.duration
    IN [existing EXCEPT !.start = start1, !.duration = duration1]

\* CutClipList.append with the merged entry removed and appended again.
CutClipList_append_moves(self, item) ==
    LET i == FirstWithPath(self, item.path)
    IN IF i = 0
       THEN Append(self, item)
       ELSE Append(SelectSeq(self, LAMBDA c : c.path # item.path),
                   MergeInto(self[i], item))

\* The search-and-merge part of CutClipList.append, for a CutClip item.
CutClipList_append(self, item) ==
    LET i == FirstWithPath(self, item.path)
    IN IF i = 0
       THEN Append(self, item)
       ELSE [self EXCEPT ![i] = MergeInto(self[i], item)]

\* isinstance(item, CutClip): a CutClip has the five fields of the dataclass;
\* any other value (a dict, a tuple, a look-alike object) lacks the frame
\* fields here.
isinstance_CutClip(item) == DOMAIN item = DOMAIN CutClip(<< >>, 0, 0)

\* CutClipList.append without the isinstance check.
append_unchecked(self, item) ==
    [self |-> CutClipList_append(self, item), raised |-> "none"]

\* CutClipList.append as a call: the list afterwards and the exception raised.
append(self, item) ==
    IF ~isinstance_CutClip(item)
    THEN [self |-> self, raised |-> "TypeError"]
    ELSE [self |-> CutClipList_append(self, item), raised |-> "none"]

\* ---- apply_handle --------------------------------------------------------
\* Python's round(x) for x = n / TicksPerSecond: nearest integer, ties to even.
round(n) ==
    LET d == TicksPerSecond
        q == n \div d
        r == n % d
    IN IF 2 * r < d THEN q
       ELSE IF 2 * r > d THEN q + 1
       ELSE IF q % 2 = 0 THEN q ELSE q + 1

\* The loop body without the clamp: reduction = handle.
HandleClip_noclamp(clip, h, orig_framerate) ==
    LET start_frames == clip.start * orig_framerate
        duration_frames == clip.duration * orig_framerate
        hticks == h * TicksPerSecond
        reduction == hticks
    IN [clip EXCEPT !.bmx_start_frames = round(start_frames - reduction),
                    !.bmx_duration_frames = round(hticks + reduction + duration_frames)]

\* The loop body with the unapplied leading pad moved to the tail:
\* duration = 2 * handle + duration_frames.
HandleClip_relocates(clip, h, orig_framerate) ==
    LET start_frames == clip.start * orig_framerate
        duration_frames == clip.duration * orig_framerate
        hticks == h * TicksPerSecond
        reduction == Min(hticks, start_frames)
    IN [clip EXCEPT !.bmx_start_frames = round(start_frames - reduction),
                    !.bmx_duration_frames = round(hticks + hticks + duration_frames)]

\* The loop body with max in place of min.
HandleClip_max(clip, h, orig_framerate) ==
    LET start_frames == clip.start * orig_framerate
        duration_frames == clip.duration * orig_framerate
        hticks == h * TicksPerSecond
        reduction == Max(hticks, start_frames)
    IN [clip EXCEPT !.bmx_start_frames = round(start_frames - reduction),
                    !.bmx_duration_frames = round(hticks + reduction + duration_frames)]

\* One iteration of the loop body of apply_handle, for a clip whose rate
\* lookup returned orig_framerate and with an integer handle h.
HandleClip(clip, h, orig_framerate) ==
    LET start_frames == clip.start * orig_framerate
        duration_frames == clip.duration * orig_framerate
        hticks == h * TicksPerSecond
        reduction == Min(hticks, start_frames)
    IN [clip EXCEPT !.bmx_start_frames = round(start_frames - reduction),
                    !.bmx_duration_frames = round(hticks + reduction + duration_frames)]

\* apply_handle(clips, handle) from entry i on; rr[p] is what get_source_rate
\* does for path p: << >> raises, <<r>> returns r.  The loop stops at the
\* first exception: a failed rate lookup, or min(None, start_frames).
RECURSIVE apply_handle_from(_, _, _, _)
apply_handle_from(clips, h, rr, i) ==
    IF i > Len(clips) THEN [clips |-> clips, error |-> "none"]
    ELSE IF rr[clips[i].path] = << >> THEN [clips |-> clips, error |-> "RateError"]
    ELSE IF h = << >> THEN [clips |-> clips, error |-> "TypeError"]
    ELSE apply_handle_from(
            [clips EXCEPT ![i] = HandleClip(clips[i], h[1], rr[clips[i].path][1])],
            h, rr, i + 1)

apply_handle(clips, h, rr) == apply_handle_from(clips, h, rr, 1)

\* ---- generate_bmx --------------------------------------------------------
\* output_path / Path(clip.path).name
OutFile(p) == [dir |-> "out", name |-> p.name]

\* The command string of one clip, kept as its variable parts.
BmxCommand(clip) ==
    [out |-> OutFile(clip.path), start |-> clip.bmx_start_frames,
     dur |-> clip.bmx_duration_frames, input |-> clip.path]

BuildCommands(clips) == [i \in 1..Len(clips) |-> BmxCommand(clips[i])]

\* ---- run_command ---------------------------------------------------------
\* run_command with success derived from "did not raise" instead of the code.
run_command_ran(cmd, proc) ==
    IF proc.kind = "exit"
    THEN [cmd |-> cmd, returncode |-> proc.code, stderr |-> "stderr",
          success |-> TRUE]
    ELSE [cmd |-> cmd, returncode |-> 0 - 1, stderr |-> "exception",
          success |-> FALSE]

\* run_command whose except branch reports the launch failure as a success.
run_command_raise_ok(cmd, proc) ==
    IF proc.kind = "exit"
    THEN [cmd |-> cmd, returncode |-> proc.code, stderr |-> "stderr",
          success |-> (proc.code = 0)]
    ELSE [cmd |-> cmd, returncode |-> 0 - 1, stderr |-> "exception",
          success |-> TRUE]

run_command(cmd, proc) ==
    IF proc.kind = "exit"
    THEN [cmd |-> cmd, returncode |-> proc.code, stderr |-> "stderr",
          success |-> (proc.code = 0)]
    ELSE [cmd |-> cmd, returncode |-> 0 - 1, stderr |-> "exception",
          success |-> FALSE]

NoResult == << >>

\* ---- _resolve_media ------------------------------------------------------
\* _resolve_media(path, trackname) in a folder holding the files named files.
RECURSIVE resolve_from(_, _, _, _)
resolve_from(path, trackname, files, e) ==
    IF e > Len(Exts) THEN Bare(trackname)
    ELSE IF Append(trackname, Exts[e]) \in files
         THEN [dir |-> path[1], name |-> Append(trackname, Exts[e])]
         ELSE resolve_from(path, trackname, files, e + 1)

_resolve_media(path, trackname, files) ==
    IF path = << >> THEN Bare(trackname)
    ELSE resolve_from(path, trackname, files, 1)

\* ---- the run -------------------------------------------------------------
\* The state main() starts in, whatever the surroundings.
InitRun ==
    /\ pc = "read"
    /\ handle \in Handles
    /\ nItems = 0
    /\ bmx_clips = << >>
    /\ source_rate = [p \in Paths |-> << >>]
    /\ bmx_cmds = << >>
    /\ futures = << >>
    /\ results = << >>
    /\ failed = << >>
    /\ error = "none"
    /\ exitStatus = << >>
    /\ hull = [p \in Paths |-> << >>]
    /\ firstSeen = << >>

\* A run over a timeline with the clips A and B, whose media A.mxf and B.mp4
\* are in the source folder.
Init ==
    /\ InitRun
    /\ source = <<"src">>
    /\ source_files = FileNames
    /\ clip_names = { <<"A">>, <<"B">> }

\* A run over any two clip names, with or without a source folder, with or
\* without B.mp4 in it.
InitMedia ==
    /\ InitRun
    /\ source \in Sources
    /\ source_files \in { { <<"A", "mxf">> }, FileNames }
    /\ clip_names \in { ns \in SUBSET TrackNames : Cardinality(ns) = 2 }

\* main(): otio.adapters.read_from_file returns the timeline.
ReadTimeline ==
    /\ pc = "read"
    /\ pc' = "main"
    /\ UNCHANGED << env, handle, nItems, bmx_clips, source_rate, bmx_cmds, futures,
                    results, failed, error, exitStatus, hull, firstSeen >>

\* The OTIOError logged but not ending the run: main() goes on.
ReadTimelineError_continues ==
    /\ pc = "read"
    /\ pc' = "main"
    /\ error' = "OTIOError"
    /\ UNCHANGED << env, handle, nItems, bmx_clips, source_rate, bmx_cmds, futures,
                    results, failed, exitStatus, hull, firstSeen >>

\* main(): read_from_file raises OTIOError; __main__ logs it and exits 1.
ReadTimelineError ==
    /\ pc = "read"
    /\ pc' = "exit"
    /\ error' = "OTIOError"
    /\ exitStatus' = <<1>>
    /\ UNCHANGED << env, handle, nItems, bmx_clips, source_rate, bmx_cmds, futures,
                    results, failed, hull, firstSeen >>

\* main(): the next item is a clip of a video track with a source range.
MainClip ==
    /\ pc = "main"
    /\ nItems < MaxItems
    /\ \E name \in clip_names, s \in Starts, d \in Durations :
          LET p == _resolve_media(source, name, source_files)
          IN /\ bmx_clips' = append(bmx_clips, CutClip(p, s, d)).self
             /\ hull' = [hull EXCEPT ![p] =
                           IF hull[p] = << >> THEN <<s, s + d>>
                           ELSE << Min(hull[p][1], s), Max(hull[p][2], s + d) >>]
             /\ firstSeen' = IF \E k \in 1..Len(firstSeen) : firstSeen[k] = p
                             THEN firstSeen ELSE Append(firstSeen, p)
    /\ nItems' = nItems + 1
    /\ UNCHANGED << env, pc, handle, source_rate, bmx_cmds, futures, results, failed,
                    error, exitStatus >>

\* main(): the next item is on a non-video track, is no Clip, or has no
\* source range.
MainSkip ==
    /\ pc = "main"
    /\ nItems < MaxItems
    /\ nItems' = nItems + 1
    /\ UNCHANGED << env, pc, handle, bmx_clips, source_rate, bmx_cmds, futures, results,
                    failed, error, exitStatus, hull, firstSeen >>

\* The rate lookups one apply_handle pass can see: a result for the entries up
\* to the first exception, nothing for the others.
LookupsFor(clips, h) ==
    LET used == { clips[i].path : i \in 1..Len(clips) }
        answers == {<< >>} \cup { <<r>> : r \in Rates }
        seen == { f \in [used -> answers] :
                    /\ \A i \in 1..Len(clips) :
                          (\E j \in 1..(i - 1) : f[clips[j].path] = << >>)
                              => f[clips[i].path] = << >>
                    /\ (h = << >>) =>
                          \A i \in 2..Len(clips) : f[clips[i].path] = << >> }
    IN { [p \in Paths |-> IF p \in used THEN f[p] ELSE << >>] : f \in seen }

\* main(): generate_bmx(bmx_clips, args.output, args.bmx), i.e.
\* apply_handle(clips, args.handle) and then one command per clip.  An
\* exception in apply_handle is not caught anywhere: the interpreter prints
\* the traceback and exits with status 1.
GenerateBmx ==
    /\ pc = "main"
    /\ nItems = MaxItems
    /\ \E rr \in LookupsFor(bmx_clips, handle) :
          LET ah == apply_handle(bmx_clips, handle, rr)
          IN /\ source_rate' = rr
             /\ bmx_clips' = ah.clips
             /\ error' = ah.error
             /\ IF ah.error = "none"
                THEN /\ bmx_cmds' = BuildCommands(ah.clips)
                     /\ pc' = "execute"
                     /\ exitStatus' = exitStatus
                ELSE /\ bmx_cmds' = bmx_cmds
                     /\ pc' = "exit"
                     /\ exitStatus' = <<1>>
    /\ UNCHANGED << env, handle, nItems, futures, results, failed, hull, firstSeen >>

\* execute_bmx: executor.submit(run_command, cmd) for every cmd.
Submit ==
    /\ pc = "execute"
    /\ futures' = [i \in 1..Len(bmx_cmds) |-> [state |-> "pending", result |-> NoResult]]
    /\ pc' = "collect"
    /\ UNCHANGED << env, handle, nItems, bmx_clips, source_rate, bmx_cmds, results,
                    failed, error, exitStatus, hull, firstSeen >>

Running == { i \in 1..Len(futures) : futures[i].state = "running" }

\* A worker thread takes a queued work item.
WorkerStart(i) ==
    /\ futures[i].state = "pending"
    /\ Cardinality(Running) < MaxWorkers
    /\ futures' = [futures EXCEPT ![i].state = "running"]
    /\ UNCHANGED << env, pc, handle, nItems, bmx_clips, source_rate, bmx_cmds, results,
                    failed, error, exitStatus, hull, firstSeen >>

\* run_command returns in the worker; the future gets its result.
WorkerFinish(i) ==
    /\ futures[i].state = "running"
    /\ \E proc \in ProcResults :
          futures' = [futures EXCEPT ![i] =
                        [state |-> "finished", result |-> <<run_command(bmx_cmds[i], proc)>>]]
    /\ UNCHANGED << env, pc, handle, nItems, bmx_clips, source_rate, bmx_cmds, results,
                    failed, error, exitStatus, hull, firstSeen >>

\* A collecting loop that only takes the futures whose command succeeded.
Collect_skips_failed(i) ==
    /\ pc = "collect"
    /\ futures[i].state = "finished"
    /\ futures[i].result[1].success
    /\ futures' = [futures EXCEPT ![i].state = "yielded"]
    /\ results' = Append(results, futures[i].result[1])
    /\ UNCHANGED << env, pc, handle, nItems, bmx_clips, source_rate, bmx_cmds, failed,
                    error, exitStatus, hull, firstSeen >>

\* execute_bmx: as_completed yields a finished future; its result is appended.
Collect(i) ==
    /\ pc = "collect"
    /\ futures[i].state = "finished"
    /\ futures' = [futures EXCEPT ![i].state = "yielded"]
    /\ results' = Append(results, futures[i].result[1])
    /\ UNCHANGED << env, pc, handle, nItems, bmx_clips, source_rate, bmx_cmds, failed,
                    error, exitStatus, hull, firstSeen >>

\* A fail-fast executor: it reports as soon as one collected outcome failed.
Report_failfast ==
    /\ pc = "collect"
    /\ \/ \A i \in 1..Len(futures) : futures[i].state = "yielded"
       \/ \E k \in 1..Len(results) : ~results[k].success
    /\ failed' = SelectSeq(results, LAMBDA r : ~r.success)
    /\ exitStatus' = IF \E k \in 1..Len(results) : ~results[k].success
                     THEN <<2>> ELSE <<0>>
    /\ pc' = "exit"
    /\ UNCHANGED << env, handle, nItems, bmx_clips, source_rate, bmx_cmds, futures,
                    results, error, hull, firstSeen >>

\* execute_bmx: as_completed is exhausted, the with block has shut the pool
\* down; the failures are logged and sys.exit is called.
Report ==
    /\ pc = "collect"
    /\ \A i \in 1..Len(futures) : futures[i].state = "yielded"
    /\ failed' = SelectSeq(results, LAMBDA r : ~r.success)
    /\ exitStatus' = IF \E k \in 1..Len(results) : ~results[k].success
                     THEN <<2>> ELSE <<0>>
    /\ pc' = "exit"
    /\ UNCHANGED << env, handle, nItems, bmx_clips, source_rate, bmx_cmds, futures,
                    results, error, hull, firstSeen >>

Next ==
    \/ ReadTimeline
    \/ ReadTimelineError
    \/ MainClip
    \/ MainSkip
    \/ GenerateBmx
    \/ Submit
    \/ \E i \in 1..Len(futures) : WorkerStart(i)
    \/ \E i \in 1..Len(futures) : WorkerFinish(i)
    \/ \E i \in 1..Len(futures) : Collect(i)
    \/ Report

Spec == Init /\ [][Next]_vars

\* The steps of the main thread inside execute_bmx, and those of the pool.
ExecutorMain == Submit \/ (\E i \in 1..Len(futures) : Collect(i)) \/ Report
ExecutorWorkers ==
    \E i \in 1..Len(futures) : WorkerStart(i) \/ WorkerFinish(i)

\* ---- execute_bmx on its own ----------------------------------------------
\* The registries of a timeline whose clips are the TrackNames, read without
\* a source folder: every order of zero to three distinct bare names.
ExecOrders ==
    { o \in UNION { [1..n -> { Bare(t) : t \in TrackNames }] :
                      n \in 0..Cardinality(TrackNames) } :
        \A i \in 1..Len(o), j \in 1..Len(o) : o[i] = o[j] => i = j }

\* main() at the call of execute_bmx, after a run with --handle 0 over such a
\* timeline: one clip of MaxDur ticks per path, every rate read as MaxRate.
InitExec ==
    /\ pc = "execute"
    /\ handle = <<0>>
    /\ nItems = MaxItems
    /\ source = << >>
    /\ source_files = {}
    /\ clip_names = TrackNames
    /\ \E o \in ExecOrders :
          LET used == { o[i] : i \in 1..Len(o) }
              rr == [p \in Paths |-> IF p \in used THEN <<MaxRate>> ELSE << >>]
              ah == apply_handle([i \in 1..Len(o) |-> CutClip(o[i], 0, MaxDur)],
                                 <<0>>, rr)
          IN /\ bmx_clips = ah.clips
             /\ source_rate = rr
             /\ bmx_cmds = BuildCommands(ah.clips)
             /\ hull = [p \in Paths |-> IF p \in used THEN <<0, MaxDur>> ELSE << >>]
             /\ firstSeen = o
    /\ futures = << >>
    /\ results = << >>
    /\ failed = << >>
    /\ error = "none"
    /\ exitStatus = << >>

NextExec == ExecutorMain \/ ExecutorWorkers

\* execute_bmx with a main thread that keeps running, worker threads that are
\* scheduled, and external processes that all end (or fail to start).
FairSpec ==
    InitExec /\ [][NextExec]_vars /\ WF_vars(ExecutorMain) /\ WF_vars(ExecutorWorkers)

\* ---- CutClipList used on its own -----------------------------------------
\* Values a caller can hand to append that are no CutClip: the same data
\* without the dataclass.
NonClips == { [path |-> p, start |-> s, duration |-> d] :
                p \in Paths, s \in Starts, d \in Durations }
Clips == { CutClip(p, s, d) : p \in Paths, s \in Starts, d \in Durations }
\* The paths the caller of AppendCall uses.
CallerPaths == { Bare(<<"A">>), Bare(<<"B">>) }

\* An empty CutClipList in the hands of a caller.
InitRegistry ==
    /\ pc = "registry"
    /\ handle = << >>
    /\ nItems = 0
    /\ bmx_clips = << >>
    /\ source_rate = [p \in Paths |-> << >>]
    /\ bmx_cmds = << >>
    /\ futures = << >>
    /\ results = << >>
    /\ failed = << >>
    /\ error = "none"
    /\ exitStatus = << >>
    /\ hull = [p \in Paths |-> << >>]
    /\ firstSeen = << >>
    /\ source = << >>
    /\ source_files = {}
    /\ clip_names = {}

\* The caller appends a value and catches what append raises; error keeps
\* the outcome of the last call.
AppendCall ==
    /\ pc = "registry"
    /\ nItems < MaxItems
    /\ \E item \in { x \in Clips \cup NonClips : x.path \in CallerPaths } :
          LET r == append(bmx_clips, item)
              p == item.path
              s == item.start
              d == item.duration
          IN /\ bmx_clips' = r.self
             /\ error' = r.raised
             /\ hull' = IF r.raised # "none" THEN hull
                        ELSE [hull EXCEPT ![p] =
                               IF hull[p] = << >> THEN <<s, s + d>>
                               ELSE << Min(hull[p][1], s), Max(hull[p][2], s + d) >>]
             /\ firstSeen' = IF r.raised # "none"
                                \/ \E k \in 1..Len(firstSeen) : firstSeen[k] = p
                             THEN firstSeen ELSE Append(firstSeen, p)
    /\ nItems' = nItems + 1
    /\ UNCHANGED << env, pc, handle, source_rate, bmx_cmds, futures, results,
                    failed, exitStatus >>

NextRegistry == AppendCall

SpecRegistry == InitRegistry /\ [][NextRegistry]_vars

\* The same run in every surroundings of InitMedia.
SpecMedia == InitMedia /\ [][Next]_vars

\* ---- properties ----------------------------------------------------------
Entries == 1..Len(bmx_clips)
Items == { CutClip(p, s, d) : p \in Paths, s \in Starts, d \in Durations }
\* The (start, duration) of every entry, by path.
Ranges(list) == { <<list[i].path, list[i].start, list[i].duration>> : i \in 1..Len(list) }
\* apply_handle has stored the frame range of entry i.
Handled(i) == source_rate[bmx_clips[i].path] # << >> /\ handle # << >>
\* The float values of apply_handle for entry i, in ticks of a frame.
StartFrames(i) == bmx_clips[i].start * source_rate[bmx_clips[i].path][1]
DurationFrames(i) == bmx_clips[i].duration * source_rate[bmx_clips[i].path][1]
Whole(n) == n % TicksPerSecond = 0
\* execute_bmx has called sys.exit.
ExecutorExited == pc = "exit" /\ error = "none"

\* C1: after any sequence of appends for one path, the entry of that path
\* starts at the smallest appended start and ends at the largest appended end
\* (the minimal range covering every appended interval).
C1_EntryIsHull ==
    \A i \in Entries :
        hull[bmx_clips[i].path] =
            << bmx_clips[i].start, bmx_clips[i].start + bmx_clips[i].duration >>

\* C2: the merged range does not depend on the order of the appends: from
\* any registry main() reaches while it walks the timeline, appending two
\* ranges of one path in either order leaves the same (start, duration) for
\* every path.
C2_OrderIndependent ==
    \A a \in Items, b \in Items :
        (pc = "main" /\ a.path = b.path) =>
            Ranges(CutClipList_append(CutClipList_append(bmx_clips, a), b))
              = Ranges(CutClipList_append(CutClipList_append(bmx_clips, b), a))

\* C3: no two entries of the registry have the same path.
C3_OneEntryPerPath ==
    \A i \in Entries, j \in Entries :
        bmx_clips[i].path = bmx_clips[j].path => i = j

\* Two paths are present and an entry was widened by a merging append.
C3_Witness ==
    /\ Len(bmx_clips) = 2
    /\ \E i \in Entries : bmx_clips[i].duration > MaxDur

\* C4: the entries are in the order in which their paths were first
\* appended (a merging append moves nothing), and generate_bmx returns one
\* command per entry in that same order.
C4_FirstInsertionOrder ==
    /\ Len(bmx_clips) = Len(firstSeen)
    /\ \A i \in Entries : bmx_clips[i].path = firstSeen[i]
    /\ (pc \in {"execute", "collect"} \/ ExecutorExited) =>
          /\ Len(bmx_cmds) = Len(bmx_clips)
          /\ \A i \in Entries : bmx_cmds[i].input = bmx_clips[i].path

\* Three appends over two paths, one of them merging, and the commands built.
C4_Witness ==
    /\ pc = "execute"
    /\ Len(bmx_cmds) = 2
    /\ bmx_clips[1].duration > MaxDur

\* C5: apply_handle never stores a negative start frame.
C5_StartNeverNegative ==
    \A i \in Entries : bmx_clips[i].bmx_start_frames >= 0

\* The handle exceeds a positive start: the leading pad was clamped.
C5_Witness ==
    /\ pc = "execute"
    /\ handle # << >>
    /\ \E i \in Entries :
          /\ StartFrames(i) > 0
          /\ StartFrames(i) < handle[1] * TicksPerSecond
          /\ bmx_clips[i].bmx_start_frames = 0

C7_DefaultHandleIsZero ==
    (handle = << >> /\ pc \in {"execute", "collect", "exit"}
       /\ error \notin {"OTIOError", "RateError"}) =>
        /\ error = "none"
        /\ Len(bmx_cmds) = Len(bmx_clips)
        /\ \A i \in Entries :
              /\ source_rate[bmx_clips[i].path] # << >>
              /\ bmx_clips[i].bmx_start_frames = round(StartFrames(i))
              /\ bmx_clips[i].bmx_duration_frames = round(DurationFrames(i))

\* C8: with handle 0 every handled entry carries round(startFrames) and
\* round(durationFrames).
C8_ZeroHandleIsRounding ==
    \A i \in Entries :
        (Handled(i) /\ handle = <<0>>) =>
            /\ bmx_clips[i].bmx_start_frames = round(StartFrames(i))
            /\ bmx_clips[i].bmx_duration_frames = round(DurationFrames(i))

\* Handle 0 and an entry whose start is not a whole number of frames.
C8_Witness ==
    /\ pc = "execute"
    /\ handle = <<0>>
    /\ \E i \in Entries :
          /\ ~Whole(StartFrames(i))
          /\ ~Whole(DurationFrames(i))

\* C9: every outcome's success flag is (returncode = 0); when execute_bmx
\* exits, the status is 0 if every command's process returned 0 and 2
\* otherwise; with no command it is 0.
C9_AggregateStatus ==
    /\ \A k \in 1..Len(results) : results[k].success <=> (results[k].returncode = 0)
    /\ \A i \in 1..Len(futures) :
          futures[i].result # NoResult =>
              (futures[i].result[1].success <=> (futures[i].result[1].returncode = 0))
    /\ ExecutorExited =>
          /\ exitStatus \in {<<0>>, <<2>>}
          /\ exitStatus = <<0>> <=>
                \A i \in 1..Len(futures) :
                    futures[i].result # NoResult /\ futures[i].result[1].returncode = 0
          /\ Len(bmx_cmds) = 0 => exitStatus = <<0>>

\* Two commands, one returned 0 and one did not; the run exited with 2.
C9_Witness ==
    /\ ExecutorExited
    /\ exitStatus = <<2>>
    /\ Len(results) = 2
    /\ \E k \in 1..2 : results[k].returncode = 0
    /\ \E k \in 1..2 : results[k].returncode = 1

\* C10: the failure report and the exit status exist only once every
\* submitted command has finished, and then results holds exactly one
\* outcome per submitted command, failed or not.
C10_WaitForAll ==
    /\ (exitStatus = << >> \/ error # "none") => failed = << >>
    /\ ExecutorExited =>
          /\ Len(futures) = Len(bmx_cmds)
          /\ \A i \in 1..Len(futures) :
                /\ futures[i].state = "yielded"
                /\ futures[i].result # NoResult
                /\ Cardinality({ k \in 1..Len(results) : results[k].cmd = bmx_cmds[i] }) = 1
          /\ Len(results) = Len(bmx_cmds)
          /\ \A k \in 1..Len(results) :
                \E i \in 1..Len(futures) : results[k] = futures[i].result[1]

\* The first outcome collected had failed; the second command still ran to
\* its end and was collected before the exit.
C10_Witness ==
    /\ ExecutorExited
    /\ Len(results) = 2
    /\ ~results[1].success
    /\ results[2].success
    /\ Len(failed) = 1

\* The outcome of a future that has one.
Outcome(i) == futures[i].result[1]
\* Some command could not be launched: subprocess.run raised in run_command.
LaunchFailed(i) == futures[i].result # NoResult /\ Outcome(i).stderr = "exception"

\* C11: a launch failure never ends the run by itself: it is an outcome with
\* returncode -1, success false and the message as stderr; execute_bmx then
\* exits with 2, the failure is in the report, and every other command has
\* its outcome in the results.
C11_LaunchFailureIsAnOutcome ==
    /\ \A i \in 1..Len(futures) :
          LaunchFailed(i) => Outcome(i).returncode = 0 - 1 /\ ~Outcome(i).success
    /\ (pc = "exit" /\ \E i \in 1..Len(futures) : LaunchFailed(i)) =>
          /\ error = "none"
          /\ exitStatus = <<2>>
          /\ \A i \in 1..Len(futures) :
                /\ futures[i].result # NoResult
                /\ \E k \in 1..Len(results) : results[k] = Outcome(i)
                /\ LaunchFailed(i) => \E k \in 1..Len(failed) : failed[k] = Outcome(i)

\* Two commands: one could not be launched, the other ran and returned 0.
C11_Witness ==
    /\ ExecutorExited
    /\ Len(results) = 2
    /\ results[1].stderr = "exception"
    /\ results[2].returncode = 0
    /\ exitStatus = <<2>>

\* C12: a failed frame-rate lookup does not abort the run: given a handle and
\* a readable timeline, the run ends in execute_bmx (status 0 or 2), and
\* every entry but the failed ones has its command and that command's outcome.
C12_RateFailureIsPerEntry ==
    (pc = "exit" /\ handle # << >> /\ error # "OTIOError") =>
        /\ exitStatus \in {<<0>>, <<2>>}
        /\ Len(results) = Len(bmx_cmds)
        /\ Len(bmx_cmds) >= Len(bmx_clips) - 1

\* C13: no two commands of one run write to the same output file.
C13_OutputsDistinct ==
    \A i \in 1..Len(bmx_cmds), j \in 1..Len(bmx_cmds) :
        bmx_cmds[i].out = bmx_cmds[j].out => i = j

\* C14: every entry has start >= 0 and duration >= 0 after every append, and
\* bmx_start_frames >= 0 and bmx_duration_frames >= 0 after apply_handle.
C14_RangesWellFormed ==
    \A i \in Entries :
        /\ bmx_clips[i].start >= 0
        /\ bmx_clips[i].duration >= 0
        /\ bmx_clips[i].bmx_start_frames >= 0
        /\ bmx_clips[i].bmx_duration_frames >= 0

\* An entry whose start was lowered by a merging append that ended before the
\* entry's end, and that apply_handle has then converted with a handle.
C14_Witness ==
    /\ pc = "execute"
    /\ handle = <<MaxHandle>>
    /\ \E i \in Entries :
          /\ hull[bmx_clips[i].path][2] > bmx_clips[i].start + bmx_clips[i].duration
          /\ bmx_clips[i].bmx_duration_frames > 0

\* C15: an OTIOError while reading the timeline ends the run at once: no
\* entry is inserted, no frame rate is looked up, no command is built or
\* launched, and the exit status is 1 (neither 0 nor 2).
C15_TimelineErrorAborts ==
    error = "OTIOError" =>
        /\ pc = "exit"
        /\ exitStatus = <<1>>
        /\ nItems = 0
        /\ bmx_clips = << >>
        /\ \A p \in Paths : source_rate[p] = << >>
        /\ bmx_cmds = << >>
        /\ futures = << >>
        /\ results = << >>

\* The timeline could not be read and the process has exited.
C15_Witness ==
    /\ error = "OTIOError"
    /\ exitStatus # << >>

\* C16: appending a value that is not a CutClip raises TypeError and leaves
\* the registry as it was: same entries, same ranges, same order.
C16_NonClipRejected ==
    /\ \A x \in NonClips : append(bmx_clips, x) = [self |-> bmx_clips, raised |-> "TypeError"]
    /\ \A c \in Clips : append(bmx_clips, c).raised = "none"

\* A registry with two entries whose caller has just had a TypeError.
C16_Witness ==
    /\ pc = "registry"
    /\ error = "TypeError"
    /\ Len(bmx_clips) = 2

\* The closed interval of an entry or item.
EndOf(c) == c.start + c.duration
\* The registry is being filled (by main() or by a caller of append).
Filling == pc \in {"main", "registry"}

\* C17: the merging insert is idempotent: appending a range the entry of its
\* path already covers changes nothing, and so does appending any range a
\* second time right after the first.
C17_AppendIdempotent ==
    Filling =>
        \A c \in Clips :
            LET once == append(bmx_clips, c).self
                i == FirstWithPath(bmx_clips, c.path)
            IN /\ (i > 0 /\ bmx_clips[i].start <= c.start /\ EndOf(c) <= EndOf(bmx_clips[i]))
                     => once = bmx_clips
               /\ append(once, c).self = once

\* C18: an append for a path that is present leaves the entry's interval
\* containing the interval it had before and the appended interval: the
\* start does not increase and the end does not decrease.
C18_AppendWidens ==
    Filling =>
        \A c \in Clips :
            LET i == FirstWithPath(bmx_clips, c.path)
                after == append(bmx_clips, c).self
            IN i > 0 =>
                  /\ after[i].start <= bmx_clips[i].start
                  /\ after[i].start <= c.start
                  /\ EndOf(after[i]) >= EndOf(bmx_clips[i])
                  /\ EndOf(after[i]) >= EndOf(c)

\* C19: an append for path P leaves every entry of another path as it was,
\* frame fields included; it keeps the number and places of the entries when
\* P is present, and stores the item, as the last entry, only when P is absent.
C19_AppendFrame ==
    (Filling \/ pc = "execute") =>
        \A c \in Clips :
            LET i == FirstWithPath(bmx_clips, c.path)
                after == append(bmx_clips, c).self
            IN /\ \A k \in Entries :
                     bmx_clips[k].path # c.path => after[k] = bmx_clips[k]
               /\ i > 0 => /\ Len(after) = Len(bmx_clips)
                           /\ after[i].path = c.path
                           /\ after[i].bmx_start_frames = bmx_clips[i].bmx_start_frames
                           /\ after[i].bmx_duration_frames = bmx_clips[i].bmx_duration_frames
               /\ i = 0 => after = Append(bmx_clips, c)

\* Two entries that carry frame ranges: an append for either path has an
\* entry of the other path, with frame fields set, to leave alone.
C19_Witness ==
    /\ pc = "execute"
    /\ Len(bmx_clips) = 2
    /\ \A i \in Entries : bmx_clips[i].bmx_duration_frames > 0

\* C20: if every launched process ends and the threads are scheduled fairly,
\* execute_bmx reaches its exit with status 0 or 2; the status, once set, is
\* never set again; and no command is pending or running at the exit.
C20_ExecutorTerminates ==
    /\ (pc = "execute") ~> (pc = "exit" /\ exitStatus \in {<<0>>, <<2>>})
    /\ [][exitStatus # << >> => exitStatus' = exitStatus]_vars
    /\ [](pc = "exit" => \A i \in 1..Len(futures) : futures[i].state = "yielded")

\* execute_bmx has exited after more commands than there are workers, the
\* last one collected having failed.
C20_Witness ==
    /\ pc = "exit"
    /\ exitStatus = <<2>>
    /\ Len(futures) > MaxWorkers
    /\ \A i \in 1..Len(futures) : futures[i].state = "yielded"
    /\ ~results[Len(results)].success

====
